---- MODULE Spec2Model ----
(***************************************************************************)
(* Model of the instance page of mysql-admin-web                           *)
(* (src/pages/instance/[identifier]/index.tsx): parseInnoDbStatus, the     *)
(* join of SHOW PROCESSLIST with the parsed transactions, and the ranking  *)
(* sort of getServerSideProps.                                             *)
(*                                                                         *)
(* A JavaScript string is a sequence of one-character strings.  A          *)
(* JavaScript number is a record [nan, v]: NaN is [nan |-> TRUE, v |-> 0], *)
(* the integer n is [nan |-> FALSE, v |-> n].  An object is an index into  *)
(* heap, so that two references to one object are two equal indices.       *)
(* Array indices keep their JavaScript (0-based) values in the variables.  *)
(***************************************************************************)
EXTENDS Integers, Sequences, FiniteSets

VARIABLES
    pc,                         \* position of the request handler
    processList,                \* rows of SHOW PROCESSLIST
    innoDbStatusString,         \* the Status text of SHOW ENGINE INNODB STATUS
    splitInnoDbStatus,          \* parseInnoDbStatus: the lines of the text
    transactionsStartIndex,     \* parseInnoDbStatus: result of findIndex
    i,                          \* parseInnoDbStatus: loop index
    heap,                       \* the TransactionInfo objects allocated so far
    transaction,                \* parseInnoDbStatus: reference to the current object
    transactions,               \* parseInnoDbStatus: key -> reference
    processListWithTransaction  \* the joined, then sorted, list

vars ==
    <<pc, processList, innoDbStatusString, splitInnoDbStatus,
      transactionsStartIndex, i, heap, transaction, transactions,
      processListWithTransaction>>

-----------------------------------------------------------------------------
(* Bounds of the checked inputs *)

MaxLines == 5

MaxProcs == 4

MaxRankProcs == 7

-----------------------------------------------------------------------------
(* JavaScript numbers *)

NaN ==
    [nan |-> TRUE, v |-> 0]

Num(n) ==
    [nan |-> FALSE, v |-> n]

\* a - b on JavaScript numbers
Minus(a, b) ==
    IF a.nan \/ b.nan THEN NaN ELSE Num(a.v - b.v)

null ==
    0

-----------------------------------------------------------------------------
(* String literals of the source *)

SECTION_MARKER ==
    <<"L","I","S","T"," ","O","F"," ","T","R","A","N","S","A","C","T","I","O","N","S"," ","F","O","R"," ","E","A","C","H"," ","S","E","S","S","I","O","N",":">>

TERMINATOR ==
    <<"-","-","-","-","-","-","-","-">>

TRANSACTION_START ==
    <<"-","-","-","T","R","A","N","S","A","C","T","I","O","N">>

ACTIVE_MARKER ==
    <<","," ","A","C","T","I","V","E">>

THREAD_ID_MARKER ==
    <<"M","a","r","i","a","D","B"," ","t","h","r","e","a","d"," ","i","d">>

-----------------------------------------------------------------------------
(* String.prototype and parseInt, as far as the source uses them *)

Min(S) ==
    CHOOSE x \in S : \A y \in S : x <= y

\* s.startsWith(p)
StartsWith(s, p) ==
    Len(s) >= Len(p) /\ SubSeq(s, 1, Len(p)) = p

\* s.indexOf(p): 0-based position of the first occurrence, -1 when there is none
IndexOf(s, p) ==
    LET hits == {k \in 0..(Len(s) - Len(p)) : SubSeq(s, k + 1, k + Len(p)) = p}
    IN  IF hits = {} THEN -1 ELSE Min(hits)

\* s.includes(p)
Includes(s, p) ==
    IndexOf(s, p) # -1

\* s.slice(start): a negative start counts from the end
Slice(s, start) ==
    LET from == IF start < 0
                THEN (IF Len(s) + start < 0 THEN 0 ELSE Len(s) + start)
                ELSE (IF start > Len(s) THEN Len(s) ELSE start)
    IN  SubSeq(s, from + 1, Len(s))

\* s.split(sep) for a one-character separator: the pieces between the
\* occurrences of sep, never an empty array ("" gives [""])
Split(s, sep) ==
    LET seps     == {k \in 1..Len(s) : s[k] = sep}
        cut(j)   == IF j = 0 THEN 0
                    ELSE IF j > Cardinality(seps) THEN Len(s) + 1
                    ELSE CHOOSE k \in seps : Cardinality({m \in seps : m < k}) = j - 1
    IN  [j \in 1..(Cardinality(seps) + 1) |-> SubSeq(s, cut(j - 1) + 1, cut(j) - 1)]

DigitChars ==
    <<"0","1","2","3","4","5","6","7","8","9","a","b","c","d","e","f">>

UpperHexChars ==
    <<"0","1","2","3","4","5","6","7","8","9","A","B","C","D","E","F">>

IsDigit(c, radix) ==
    \E k \in 1..radix : DigitChars[k] = c \/ UpperHexChars[k] = c

DigitValue(c, radix) ==
    (CHOOSE k \in 1..radix : DigitChars[k] = c \/ UpperHexChars[k] = c) - 1

IsWhiteSpace(c) ==
    c \in {" ", "\t", "\n", "\r"}

RECURSIVE SkipWhiteSpace(_)
SkipWhiteSpace(s) ==
    IF s # <<>> /\ IsWhiteSpace(Head(s)) THEN SkipWhiteSpace(Tail(s)) ELSE s

RECURSIVE ParseDigits(_, _, _, _)
ParseDigits(s, radix, acc, seen) ==
    IF s # <<>> /\ IsDigit(Head(s), radix)
    THEN ParseDigits(Tail(s), radix, acc * radix + DigitValue(Head(s), radix), TRUE)
    ELSE IF seen THEN Num(acc) ELSE NaN

\* parseInt(s) without a radix: leading white space, a sign, an optional 0x,
\* then the longest run of digits; NaN when there is no digit
parseInt(s) ==
    LET t    == SkipWhiteSpace(s)
        neg  == t # <<>> /\ Head(t) = "-"
        u    == IF t # <<>> /\ Head(t) \in {"+", "-"} THEN Tail(t) ELSE t
        hex  == Len(u) >= 2 /\ u[1] = "0" /\ u[2] \in {"x", "X"}
        m    == IF hex THEN ParseDigits(SubSeq(u, 3, Len(u)), 16, 0, FALSE)
                ELSE ParseDigits(u, 10, 0, FALSE)
    IN  IF m.nan THEN NaN ELSE Num(IF neg THEN 0 - m.v ELSE m.v)

-----------------------------------------------------------------------------
(* parseInnoDbStatus *)

\* findIndex((line) => line.includes(marker)): 0-based, -1 when no line has it
FindSectionIndex(lines) ==
    LET hits == {k \in 0..(Len(lines) - 1) : Includes(lines[k + 1], SECTION_MARKER)}
    IN  IF hits = {} THEN -1 ELSE Min(hits)

\* a ninth dash in the literal: the line of eight dashes no longer matches
IsTerminatorLine_NineDashes(line) ==
    StartsWith(line, TERMINATOR \o <<"-">>)

IsTerminatorLine(line) ==
    StartsWith(line, TERMINATOR)

IsTransactionLine(line) ==
    StartsWith(line, TRANSACTION_START)

\* the entry is written at the '---TRANSACTION' line as well
IsThreadIdLine_OrTransactionLine(line) ==
    StartsWith(line, THREAD_ID_MARKER) \/ StartsWith(line, TRANSACTION_START)

IsThreadIdLine(line) ==
    StartsWith(line, THREAD_ID_MARKER)

\* the slice starts one character early, inside ', ACTIVE'
ActiveTimeOf_SliceEarly(line) ==
    parseInt(Slice(line, IndexOf(line, ACTIVE_MARKER) + 7))

\* const index = line.indexOf(', ACTIVE'); parseInt(line.slice(index + 8))
ActiveTimeOf(line) ==
    parseInt(Slice(line, IndexOf(line, ACTIVE_MARKER) + 8))

\* parseInt(line.split(' ')[3]); a missing token is undefined, which parses to NaN
ThreadIdOf(line) ==
    LET tokens == Split(line, " ")
    IN  IF Len(tokens) >= 4 THEN parseInt(tokens[4]) ELSE NaN

\* the object literal { activeTime, info: [] }
NewTransaction(activeTime) ==
    [activeTime |-> activeTime, info |-> <<>>]

\* transactions[threadId] = ref
Store(dict, threadId, ref) ==
    [k \in (DOMAIN dict) \cup {threadId} |-> IF k = threadId THEN ref ELSE dict[k]]

EmptyDict ==
    [k \in {} |-> null]

\* lines 63-76: split, findIndex, the empty dictionary, the first accumulator
ParseEnter ==
    /\ pc = "parse"
    /\ LET lines == Split(innoDbStatusString, "\n")
           index == FindSectionIndex(lines)
       IN  /\ splitInnoDbStatus' = lines
           /\ transactionsStartIndex' = index
           /\ i' = index
    /\ heap' = <<NewTransaction(Num(-1))>>
    /\ transaction' = 1
    /\ transactions' = EmptyDict
    /\ pc' = "loop"
    /\ UNCHANGED <<processList, innoDbStatusString, processListWithTransaction>>

\* line 77-78: splitInnoDbStatus[-1] is undefined, and undefined.startsWith
\* raises a TypeError that nothing catches
ParseThrow ==
    /\ pc = "loop"
    /\ i < Len(splitInnoDbStatus)
    /\ i < 0
    /\ pc' = "threw"
    /\ UNCHANGED <<processList, innoDbStatusString, splitInnoDbStatus,
                   transactionsStartIndex, i, heap, transaction, transactions,
                   processListWithTransaction>>

\* lines 76-101: one pass of the loop body over a line that is no terminator
ParseLine ==
    /\ pc = "loop"
    /\ i >= 0
    /\ i < Len(splitInnoDbStatus)
    /\ LET line  == splitInnoDbStatus[i + 1]
           heap1 == IF IsTransactionLine(line)
                    THEN Append(heap, NewTransaction(ActiveTimeOf(line)))
                    ELSE heap
           cur   == IF IsTransactionLine(line) THEN Len(heap1) ELSE transaction
       IN  /\ ~IsTerminatorLine(line)
           /\ transaction' = cur
           /\ transactions' = IF IsThreadIdLine(line)
                              THEN Store(transactions, ThreadIdOf(line), cur)
                              ELSE transactions
           /\ heap' = [heap1 EXCEPT ![cur].info = Append(@, line)]
    /\ i' = i + 1
    /\ UNCHANGED <<pc, processList, innoDbStatusString, splitInnoDbStatus,
                   transactionsStartIndex, processListWithTransaction>>

\* lines 78-80 and 103: break at a terminator line, then return
ParseBreak ==
    /\ pc = "loop"
    /\ i >= 0
    /\ i < Len(splitInnoDbStatus)
    /\ IsTerminatorLine(splitInnoDbStatus[i + 1])
    /\ pc' = "parsed"
    /\ UNCHANGED <<processList, innoDbStatusString, splitInnoDbStatus,
                   transactionsStartIndex, i, heap, transaction, transactions,
                   processListWithTransaction>>

\* lines 76 and 103: the loop condition fails at the end of the text, then return
ParseEnd ==
    /\ pc = "loop"
    /\ i >= Len(splitInnoDbStatus)
    /\ pc' = "parsed"
    /\ UNCHANGED <<processList, innoDbStatusString, splitInnoDbStatus,
                   transactionsStartIndex, i, heap, transaction, transactions,
                   processListWithTransaction>>

-----------------------------------------------------------------------------
(* getServerSideProps: the join *)

\* the entry of the wrong key
Lookup_NextId(dict, id) ==
    IF Num(id + 1) \in DOMAIN dict THEN dict[Num(id + 1)] ELSE null

\* innoDbStatus[process.Id] || null: an object is never falsy
Lookup(dict, id) ==
    IF Num(id) \in DOMAIN dict THEN dict[Num(id)] ELSE null

\* { ...process, transaction }
WithTransaction(process, ref) ==
    [f \in (DOMAIN process) \cup {"transaction"} |->
        IF f = "transaction" THEN ref ELSE process[f]]

\* processList.map(...)
Correlated(list, dict) ==
    [j \in 1..Len(list) |-> WithTransaction(list[j], Lookup(dict, list[j].Id))]

Correlate ==
    /\ pc = "parsed"
    /\ processListWithTransaction' = Correlated(processList, transactions)
    /\ pc' = "correlated"
    /\ UNCHANGED <<processList, innoDbStatusString, splitInnoDbStatus,
                   transactionsStartIndex, i, heap, transaction, transactions>>

-----------------------------------------------------------------------------
(* getServerSideProps: the sort *)

\* the signs of the first two returns exchanged
compare_SignsSwapped(a, b) ==
    IF a.transaction # null /\ b.transaction = null THEN Num(1)
    ELSE IF a.transaction = null /\ b.transaction # null THEN Num(-1)
    ELSE IF a.transaction # null /\ b.transaction # null
         THEN Minus(heap[b.transaction].activeTime, heap[a.transaction].activeTime)
    ELSE Num(b.Time - a.Time)

\* the comparison function of lines 141-152; its value is a JavaScript number
compare(a, b) ==
    IF a.transaction # null /\ b.transaction = null THEN Num(-1)
    ELSE IF a.transaction = null /\ b.transaction # null THEN Num(1)
    ELSE IF a.transaction # null /\ b.transaction # null
         THEN Minus(heap[b.transaction].activeTime, heap[a.transaction].activeTime)
    ELSE Num(b.Time - a.Time)

\* Array.prototype.sort calls the comparison function through SortCompare,
\* which reads a NaN result as +0
SortCompare(a, b) ==
    LET v == compare(a, b)
    IN  IF v.nan THEN 0 ELSE v.v

Reverse(s) ==
    [k \in 1..Len(s) |-> s[Len(s) + 1 - k]]

\* The engine's sort for arrays shorter than 64 elements (V8, which runs the
\* server side of a Next.js page): the longest initial run, non-descending or
\* strictly descending and then reversed, followed by a binary insertion of
\* every later element.
RECURSIVE ExtendRun(_, _, _)
ExtendRun(a, idx, descending) ==
    IF idx > Len(a) THEN Len(a)
    ELSE LET order == SortCompare(a[idx], a[idx - 1])
         IN  IF (descending /\ order >= 0) \/ (~descending /\ order < 0)
             THEN idx - 1
             ELSE ExtendRun(a, idx + 1, descending)

CountAndMakeRun(a) ==
    LET descending == SortCompare(a[2], a[1]) < 0
        run        == ExtendRun(a, 3, descending)
    IN  [runLength |-> run,
         work      |-> IF descending
                       THEN Reverse(SubSeq(a, 1, run)) \o SubSeq(a, run + 1, Len(a))
                       ELSE a]

RECURSIVE BinarySearch(_, _, _, _)
BinarySearch(a, pivot, left, right) ==
    IF left >= right THEN left
    ELSE LET mid == left + ((right - left) \div 2)
         IN  IF SortCompare(pivot, a[mid + 1]) < 0
             THEN BinarySearch(a, pivot, left, mid)
             ELSE BinarySearch(a, pivot, mid + 1, right)

RECURSIVE BinaryInsertionSort(_, _)
BinaryInsertionSort(a, start) ==
    IF start >= Len(a) THEN a
    ELSE LET pivot == a[start + 1]
             left  == BinarySearch(a, pivot, 0, start)
         IN  BinaryInsertionSort(
                 SubSeq(a, 1, left) \o <<pivot>> \o SubSeq(a, left + 1, start)
                     \o SubSeq(a, start + 2, Len(a)),
                 start + 1)

\* processListWithTransaction.sort(compare)
ArraySort(a) ==
    IF Len(a) < 2 THEN a
    ELSE LET r == CountAndMakeRun(a)
         IN  BinaryInsertionSort(r.work, r.runLength)

Rank ==
    /\ pc = "correlated"
    /\ processListWithTransaction' = ArraySort(processListWithTransaction)
    /\ pc' = "done"
    /\ UNCHANGED <<processList, innoDbStatusString, splitInnoDbStatus,
                   transactionsStartIndex, i, heap, transaction, transactions>>

-----------------------------------------------------------------------------
(* The inputs *)

RECURSIVE Join(_)
Join(lines) ==
    IF lines = <<>> THEN <<>>
    ELSE IF Len(lines) = 1 THEN lines[1]
    ELSE lines[1] \o <<"\n">> \o Join(Tail(lines))

RECURSIVE Flatten(_)
Flatten(seqs) ==
    IF seqs = <<>> THEN <<>> ELSE Head(seqs) \o Flatten(Tail(seqs))

RECURSIVE NumberToString(_)
NumberToString(n) ==
    IF n < 10 THEN <<DigitChars[n + 1]>>
    ELSE NumberToString(n \div 10) \o <<DigitChars[(n % 10) + 1]>>

\* '---TRANSACTION <t>, ACTIVE <a> sec'
ActiveLine(t, a) ==
    TRANSACTION_START \o <<" ">> \o NumberToString(t) \o ACTIVE_MARKER
        \o <<" ">> \o NumberToString(a) \o <<" ","s","e","c">>

\* '---TRANSACTION <t>, not started'
NotStartedLine(t) ==
    TRANSACTION_START \o <<" ">> \o NumberToString(t)
        \o <<","," ","n","o","t"," ","s","t","a","r","t","e","d">>

\* '---TRANSACTION <t>, ACTIVE (PREPARED) <a> sec'
PreparedLine(t, a) ==
    TRANSACTION_START \o <<" ">> \o NumberToString(t) \o ACTIVE_MARKER
        \o <<" ","(","P","R","E","P","A","R","E","D",")"," ">>
        \o NumberToString(a) \o <<" ","s","e","c">>

\* 'MariaDB thread id <k>, foo'
ThreadIdLine(k) ==
    THREAD_ID_MARKER \o <<" ">> \o NumberToString(k) \o <<","," ","f","o","o">>

\* a row of SHOW PROCESSLIST
Process(id, time) ==
    [Id |-> id, User |-> "root", Host |-> "localhost", db |-> "app",
     Command |-> "Query", Time |-> time, State |-> "", Info |-> "", Progress |-> 0]

\* the lines a free-form report is made of; a repeated marker line stands for
\* the lines of a block that are no '---TRANSACTION', thread id or terminator
\* line
ReportLines ==
    { SECTION_MARKER, TERMINATOR,
      ActiveLine(1, 5), NotStartedLine(2), PreparedLine(3, 4),
      ThreadIdLine(7), ThreadIdLine(1) }

Reports ==
    UNION { [1..n -> ReportLines] : n \in 0..MaxLines }

TimeValues ==
    {10, 20}

\* the state when parseInnoDbStatus is called (line 129) on the given inputs
Start(list, text) ==
    /\ pc = "parse"
    /\ processList = list
    /\ innoDbStatusString = text
    /\ splitInnoDbStatus = <<>>
    /\ transactionsStartIndex = 0
    /\ i = 0
    /\ heap = <<>>
    /\ transaction = null
    /\ transactions = EmptyDict
    /\ processListWithTransaction = <<>>

\* any report of up to MaxLines lines, joined to the sessions 1 and 7
Init ==
    \E lines \in Reports :
        Start(<<Process(1, 10), Process(7, 20)>>, Join(lines))

\* the transaction block of one session in a generated report: nothing, or a
\* '---TRANSACTION' line followed by the session's 'MariaDB thread id' line
Block(id, kind) ==
    IF kind = "none" THEN <<>>
    ELSE IF kind = "idle" THEN <<NotStartedLine(id), ThreadIdLine(id)>>
    ELSE IF kind = "a3" THEN <<ActiveLine(id, 3), ThreadIdLine(id)>>
    ELSE <<ActiveLine(id, 5), ThreadIdLine(id)>>

\* the section marker, the blocks of the sessions 1..Len(kinds) in this order,
\* and the terminator
SectionReport(kinds) ==
    Join(<<SECTION_MARKER>>
         \o Flatten([id \in 1..Len(kinds) |-> Block(id, kinds[id])])
         \o <<TERMINATOR>>)

\* the report of a server: its section, or, for a server without
\* transactions, possibly a text that ends with the marker line or a text
\* without the section
ReportsOf(kinds) ==
    {SectionReport(kinds)}
        \cup (IF \A id \in 1..Len(kinds) : kinds[id] = "none"
              THEN {SECTION_MARKER, <<>>}
              ELSE {})

\* up to MaxProcs sessions with ids 1..n in list order, and a report with a
\* block, or none, for each of the ids 1..MaxProcs
InitView ==
    \E n \in 0..MaxProcs :
        \E times \in [1..n -> TimeValues] :
            \E kinds \in [1..MaxProcs -> {"none", "idle", "a3", "a5"}] :
                \E text \in ReportsOf(kinds) :
                    Start([j \in 1..n |-> Process(j, times[j])], text)

\* up to MaxRankProcs sessions, each with a transaction block in the report
InitRank ==
    \E n \in 0..MaxRankProcs :
        \E kinds \in [1..n -> {"idle", "a3", "a5"}] :
            \E text \in ReportsOf(kinds) :
                Start([j \in 1..n |-> Process(j, 10)], text)

Next ==
    \/ ParseEnter
    \/ ParseThrow
    \/ ParseLine
    \/ ParseBreak
    \/ ParseEnd
    \/ Correlate
    \/ Rank

Spec ==
    Init /\ [][Next]_vars

SpecView ==
    InitView /\ [][Next]_vars

SpecRank ==
    InitRank /\ [][Next]_vars

-----------------------------------------------------------------------------
(* The report as the claims read it, from the text alone *)

\* 1-based position of the first line from line sec on that begins with
\* eight dashes, Len(lines) + 1 if none
EndLineOf(lines, sec) ==
    Min({j \in sec..Len(lines) : StartsWith(lines[j], TERMINATOR)}
        \cup {Len(lines) + 1})

\* lines: the lines of the text; sec: the 1-based position of the first line
\* holding the section marker, 0 if none; end: the position of the terminator;
\* starts: the positions of the scanned '---TRANSACTION' lines
Scan ==
    LET lines == Split(innoDbStatusString, "\n")
        sec   == FindSectionIndex(lines) + 1
        end   == IF sec = 0 THEN 0 ELSE EndLineOf(lines, sec)
    IN  [lines  |-> lines,
         sec    |-> sec,
         end    |-> end,
         starts |-> {j \in sec..(end - 1) : StartsWith(lines[j], TRANSACTION_START)}]

\* one past the last line of the block that starts at line s
BlockEnd(r, s) ==
    Min({j \in r.starts : j > s} \cup {r.end})

BlockOf(r, s) ==
    SubSeq(r.lines, s, BlockEnd(r, s) - 1)

\* the positions of the 'MariaDB thread id' lines among the lines from..to
IdLines(r, from, to) ==
    {j \in from..to : StartsWith(r.lines[j], THREAD_ID_MARKER)}

\* parseInnoDbStatus has just returned: transactions is its result
Returned ==
    pc = "parsed"

\* the line carries ', ACTIVE <integer> sec'
HasActiveDuration(line) ==
    \E k \in 1..(Len(line) - 9) :
        /\ SubSeq(line, k, k + 7) = ACTIVE_MARKER
        /\ line[k + 8] = " "
        /\ IsDigit(line[k + 9], 10)

-----------------------------------------------------------------------------
(* Claims about parseInnoDbStatus, checked under Spec *)

\* C1: for every text in which no line contains the section marker (the
\* empty text included), parseInnoDbStatus raises no failure and returns an
\* empty mapping.
C1_NoMarkerGivesEmptyMapping ==
    (pc = "threw" \/ Returned) =>
        (Scan.sec = 0 => (pc # "threw" /\ transactions = EmptyDict))

\* C2: at return, every mapping entry made inside a block whose
\* '---TRANSACTION' line has no well-formed ', ACTIVE <integer> sec' has
\* activeTime equal to the sentinel -1, and parsing did not throw.
C2_MalformedActiveGivesSentinel ==
    /\ pc = "threw" => Scan.sec = 0
    /\ Returned =>
        \A k \in DOMAIN transactions :
            LET t == heap[transactions[k]]
            IN  (StartsWith(t.info[1], TRANSACTION_START)
                    /\ ~HasActiveDuration(t.info[1]))
                => t.activeTime = Num(-1)

\* the reports of Scenario A: the marker line, '---TRANSACTION 1, ACTIVE n sec',
\* 'MariaDB thread id k, foo' and the terminator, with or without a final
\* line break; as pairs <<n, k>> of one digit each
ScenarioAInputs(lines) ==
    IF /\ Len(lines) \in {4, 5}
       /\ lines[1] = SECTION_MARKER
       /\ lines[4] = TERMINATOR
       /\ Len(lines) = 5 => lines[5] = <<>>
    THEN {nk \in (0..9) \X (0..9) :
             lines[2] = ActiveLine(1, nk[1]) /\ lines[3] = ThreadIdLine(nk[2])}
    ELSE {}

\* C3, as stated: for the report of Scenario A the mapping has exactly the
\* key k, with activeTime n and, as info, the three lines that precede the
\* terminator.
C3_ScenarioAThreeLines ==
    Returned =>
        LET lines == Split(innoDbStatusString, "\n")
        IN  \A nk \in ScenarioAInputs(lines) :
                /\ DOMAIN transactions = {Num(nk[2])}
                /\ heap[transactions[Num(nk[2])]].activeTime = Num(nk[1])
                /\ heap[transactions[Num(nk[2])]].info = SubSeq(lines, 1, 3)

\* C3, amended: for the report of Scenario A the mapping has exactly the key
\* k, with activeTime n and, as info, the '---TRANSACTION' line and the
\* 'MariaDB thread id' line: the marker line is not part of it.
C3_ScenarioATwoLines ==
    Returned =>
        LET lines == Split(innoDbStatusString, "\n")
        IN  \A nk \in ScenarioAInputs(lines) :
                /\ DOMAIN transactions = {Num(nk[2])}
                /\ heap[transactions[Num(nk[2])]].activeTime = Num(nk[1])
                /\ heap[transactions[Num(nk[2])]].info = SubSeq(lines, 2, 3)

C3_Witness ==
    /\ pc = "parsed"
    /\ <<5, 7>> \in ScenarioAInputs(Split(innoDbStatusString, "\n"))
    /\ DOMAIN transactions = {Num(7)}

\* C4: a block without a 'MariaDB thread id' line before the next
\* '---TRANSACTION' line or the terminator is no entry of the returned
\* mapping, a section without any thread id line gives the empty mapping, and
\* a text with the section raises nothing.
C4_BlockWithoutIdDropped ==
    /\ pc = "threw" => Scan.sec = 0
    /\ Returned =>
        LET r == Scan
        IN  /\ \A s \in r.starts :
                  IdLines(r, s, BlockEnd(r, s) - 1) = {} =>
                      \A k \in DOMAIN transactions :
                          heap[transactions[k]].info # BlockOf(r, s)
            /\ IdLines(r, r.sec, r.end - 1) = {} => transactions = EmptyDict

C4_Witness ==
    /\ pc = "parsed"
    /\ \E s \in Scan.starts : IdLines(Scan, s, BlockEnd(Scan, s) - 1) = {}
    /\ transactions # EmptyDict

\* C9: at return no two distinct keys of the mapping refer to the same
\* TransactionInfo object.
C9_OneKeyPerTransaction ==
    Returned =>
        \A k1, k2 \in DOMAIN transactions :
            k1 # k2 => transactions[k1] # transactions[k2]

\* C10: at return every key of the mapping is the id of a thread id line
\* scanned before the terminator; the info of an entry made inside a block
\* is, in file order, exactly the lines from the block's '---TRANSACTION'
\* line up to but excluding the next '---TRANSACTION' line or the terminator,
\* and that block holds a thread id line with the entry's key.
C10_InfoIsTheWholeBlock ==
    Returned =>
        LET r == Scan
        IN  \A k \in DOMAIN transactions :
                LET t == heap[transactions[k]]
                IN  /\ \E j \in IdLines(r, r.sec, r.end - 1) :
                           ThreadIdOf(r.lines[j]) = k
                    /\ StartsWith(t.info[1], TRANSACTION_START) =>
                          \E s \in r.starts :
                              /\ t.info = BlockOf(r, s)
                              /\ \E j \in IdLines(r, s, BlockEnd(r, s) - 1) :
                                     ThreadIdOf(r.lines[j]) = k

\* an entry whose block goes on after its thread id line, in a report that
\* has a terminator
C10_Witness ==
    /\ pc = "parsed"
    /\ Scan.end <= Len(Scan.lines)
    /\ \E k \in DOMAIN transactions :
          LET t == heap[transactions[k]]
          IN  /\ StartsWith(t.info[1], TRANSACTION_START)
              /\ Len(t.info) >= 3
              /\ StartsWith(t.info[2], THREAD_ID_MARKER)

-----------------------------------------------------------------------------
(* Claims about the join and the sort *)

HasTransaction(e) ==
    e.transaction # null

ActiveTime(e) ==
    heap[e.transaction].activeTime

\* a > b on JavaScript numbers: false when either is NaN
Greater(a, b) ==
    ~a.nan /\ ~b.nan /\ a.v > b.v

\* a === b on JavaScript numbers: false when either is NaN
SameNumber(a, b) ==
    ~a.nan /\ ~b.nan /\ a.v = b.v

\* position in the input session list of the session of an output element
InputPosition(e) ==
    CHOOSE j \in 1..Len(processList) : processList[j].Id = e.Id

\* C5, checked under SpecView: the joined list is as long as the session
\* list, its j-th element carries the fields of the j-th session unchanged,
\* and its transaction is the mapping entry of the session's id when there
\* is one and null otherwise.
C5_JoinOneToOne ==
    pc = "correlated" =>
        /\ Len(processListWithTransaction) = Len(processList)
        /\ \A j \in 1..Len(processList) :
              LET e == processListWithTransaction[j]
                  p == processList[j]
              IN  /\ DOMAIN e = DOMAIN p \cup {"transaction"}
                  /\ \A f \in DOMAIN p : e[f] = p[f]
                  /\ Num(p.Id) \in DOMAIN transactions
                        => e.transaction = transactions[Num(p.Id)]
                  /\ Num(p.Id) \notin DOMAIN transactions
                        => e.transaction = null

\* sessions with and without a mapping entry, and an entry of no session
C5_Witness ==
    /\ pc = "correlated"
    /\ \E j \in 1..Len(processList) : HasTransaction(processListWithTransaction[j])
    /\ \E j \in 1..Len(processList) : ~HasTransaction(processListWithTransaction[j])
    /\ \E k \in DOMAIN transactions :
          \A j \in 1..Len(processList) : Num(processList[j].Id) # k

\* C6, checked under SpecView: in the ranked list every session with a
\* transaction precedes every session without one, and the ranked list is a
\* permutation of the joined list.
C6_RankingPartition ==
    pc = "done" =>
        LET out    == processListWithTransaction
            joined == Correlated(processList, transactions)
        IN  /\ \A p, q \in 1..Len(out) :
                  (~HasTransaction(out[p]) /\ HasTransaction(out[q])) => q < p
            /\ Len(out) = Len(joined)
            /\ \A j \in 1..Len(joined) :
                  Cardinality({p \in 1..Len(out) : out[p] = joined[j]}) = 1

\* a session without a transaction came first in the input and a session
\* with one is ranked before it
C6_Witness ==
    /\ pc = "done"
    /\ Len(processList) >= 3
    /\ Num(processList[1].Id) \notin DOMAIN transactions
    /\ \E j \in 2..Len(processList) : Num(processList[j].Id) \in DOMAIN transactions
    /\ HasTransaction(processListWithTransaction[1])

\* C7, checked under SpecView: in the ranked list, of two sessions that both
\* have a transaction the one with the greater activeTime comes first, and
\* of two sessions that both have none the one with the greater Time comes
\* first.
C7_RankingDescending ==
    pc = "done" =>
        LET out == processListWithTransaction
        IN  \A p, q \in 1..Len(out) :
                /\ (HasTransaction(out[p]) /\ HasTransaction(out[q])
                        /\ Greater(ActiveTime(out[p]), ActiveTime(out[q])))
                    => p < q
                /\ (~HasTransaction(out[p]) /\ ~HasTransaction(out[q])
                        /\ out[p].Time > out[q].Time)
                    => p < q

\* C8, checked under SpecRank: two sessions with equal keys (both with
\* transactions of equal activeTime, or both without a transaction and with
\* equal Time) are ranked in the order of the input session list.
C8_RankingStable ==
    pc = "done" =>
        LET out == processListWithTransaction
        IN  \A p, q \in 1..Len(out) :
                (/\ p < q
                 /\ \/ /\ HasTransaction(out[p]) /\ HasTransaction(out[q])
                       /\ SameNumber(ActiveTime(out[p]), ActiveTime(out[q]))
                    \/ /\ ~HasTransaction(out[p]) /\ ~HasTransaction(out[q])
                       /\ out[p].Time = out[q].Time)
                => InputPosition(out[p]) < InputPosition(out[q])

====
